---------------------------- MODULE Spec2Model ----------------------------
(***************************************************************************)
(* Model of the PICT picture decoder of Source_Files/Misc/images_sdl.cpp:  *)
(* the PackBits scan-line unpacker (unpack_bits), the depth-specific       *)
(* decompressors, the dispatch routine (uncompress_picture) and the opcode *)
(* interpreter (picture_to_surface).                                       *)
(*                                                                         *)
(* Memory is modelled at the byte level.  A read through a raw pointer at  *)
(* an offset at or beyond the end of the resource is undefined behaviour;  *)
(* it is modelled as a nondeterministic byte ("junk", chosen per call).    *)
(***************************************************************************)
EXTENDS Integers, Sequences, FiniteSets, TLC

VARIABLES
    \* ---- one call of unpack_bits<T>(src, row_bytes, dst) ----
    src,        \* the bytes src points into (a sequence of 0..255)
    row_bytes,  \* parameter row_bytes
    unit,       \* sizeof(T): 1 (uint8) or 2 (uint16)
    sp,         \* offset of the src pointer into the bytes
    src_count,  \* local src_count (may become negative)
    dst,        \* the units written through dst so far, in order
    upc,        \* position in unpack_bits: "start", "loop", "ret", "idle"
    line,       \* the runs the scan line was packed from (input of the call)
    \* ---- one call of picture_to_surface(rsrc) ----
    rsrc,       \* the resource bytes (rsrc.GetPointer(), rsrc.GetLength())
    p,          \* offset of the SDL_RWops stream p
    pc,         \* "loop", "returned", "exited", "crashed", "idle"
    s,          \* the surface: NoSurface (NULL) or a record
    op,         \* local opcode: the last opcode read (-1: none yet)
    img,        \* the locals of the image case (row_bytes, top, ...), or NoImage
    env,        \* the host: byte order, and whether the allocations succeed
    pict,       \* what the resource was built from (input of the call)
    obs,        \* observations of the call (history, not program state)
    \* ---- two calls of picture_to_surface in two threads of a process ----
    calls       \* <<>> or the two calls: [rsrc, p, pc, s, op, short] each

uvars == <<src, row_bytes, unit, sp, src_count, dst, upc, line>>
pvars == <<rsrc, p, pc, s, op, img, env, pict, obs>>
cvars == <<calls>>
vars == <<src, row_bytes, unit, sp, src_count, dst, upc, line,
          rsrc, p, pc, s, op, img, env, pict, obs, calls>>

---------------------------------------------------------------------------
(* Integer conversions *)

\* (int8) of a byte
Int8(b) == IF b >= 128 THEN b - 256 ELSE b

\* conversion to uint16
U16(x) == x % 65536

\* mutant of U8: the value is kept as it is
U8_Wide(x) == x

\* conversion to uint8
U8(x) == x % 256

Max(a, b) == IF a >= b THEN a ELSE b

\* i copies of x, as a sequence
Rep(n, x) == [i \in 1..n |-> x]

---------------------------------------------------------------------------
(* Memory: m.b are the bytes of the buffer, m.junk is what a read beyond   *)
(* them yields in this call.                                               *)

At(m, i) == IF i < Len(m.b) THEN m.b[i + 1] ELSE m.junk

\* the bytes a read beyond the end of a buffer, or of uninitialized heap
\* memory, may yield (kept small: unpack_bits takes them as counts)
JunkBytes == {0, 2}

\* mutant of ReadUnit: the two bytes of a unit taken low byte first
ReadUnit_LowFirst(m, i, w) ==
    IF w = 1 THEN At(m, i) ELSE At(m, i + 1) * 256 + At(m, i)

\* T data = *src (sizeof(T) == 1), or (src[0] << 8) | src[1]
ReadUnit(m, i, w) == IF w = 1 THEN At(m, i) ELSE At(m, i) * 256 + At(m, i + 1)

---------------------------------------------------------------------------
(* unpack_bits: the state of a call is [sp, cnt, out, hi]: the source      *)
(* offset, src_count, the units written to dst, and the highest offset     *)
(* read so far (-1: none).                                                 *)

\* "Read source count"
ReadCount(m, i, rb) ==
    IF rb > 250
    THEN [sp |-> i + 2, cnt |-> At(m, i) * 256 + At(m, i + 1),
          out |-> <<>>, hi |-> i + 1]
    ELSE [sp |-> i + 1, cnt |-> At(m, i), out |-> <<>>, hi |-> i]

\* mutant of RepeatRun: the run is -c units long (the "+ 1" is lost)
RepeatRun_Short(m, st, w, c) ==
    [sp  |-> st.sp + 1 + w,
     cnt |-> st.cnt - 1 - w,
     out |-> st.out \o Rep(-c, ReadUnit(m, st.sp + 1, w)),
     hi  |-> Max(st.hi, st.sp + w)]

\* "RLE compressed run": c < 0 is the flag/count byte read at st.sp
RepeatRun(m, st, w, c) ==
    LET size == -c + 1
        data == ReadUnit(m, st.sp + 1, w)
    IN  [sp  |-> st.sp + 1 + w,
         cnt |-> st.cnt - 1 - w,
         out |-> st.out \o Rep(size, data),
         hi  |-> Max(st.hi, st.sp + w)]

\* mutant of LiteralRun: src is not advanced inside the copy loop, so the
\* first unit is written size times
LiteralRun_NoAdvance(m, st, w, c) ==
    [sp  |-> st.sp + 1 + (c + 1) * w,
     cnt |-> st.cnt - 1 - (c + 1) * w,
     out |-> st.out \o Rep(c + 1, ReadUnit(m, st.sp + 1, w)),
     hi  |-> Max(st.hi, st.sp + w)]

\* "Uncompressed run": c >= 0 is the flag/count byte read at st.sp
LiteralRun(m, st, w, c) ==
    LET size == c + 1
    IN  [sp  |-> st.sp + 1 + size * w,
         cnt |-> st.cnt - 1 - size * w,
         out |-> st.out \o [i \in 1..size |-> ReadUnit(m, st.sp + 1 + (i - 1) * w, w)],
         hi  |-> Max(st.hi, st.sp + size * w)]

\* one iteration of "while (src_count > 0)"
UnpackRun(m, st, w) ==
    LET c == Int8(At(m, st.sp))
    IN  IF c < 0 THEN RepeatRun(m, st, w, c) ELSE LiteralRun(m, st, w, c)

RECURSIVE UnpackLoop(_, _, _)
UnpackLoop(m, st, w) ==
    IF st.cnt > 0 THEN UnpackLoop(m, UnpackRun(m, st, w), w) ELSE st

\* the whole call: unpack_bits<T>(src + i, rb, dst), sizeof(T) = w
unpack_bits(m, i, rb, w) == UnpackLoop(m, ReadCount(m, i, rb), w)

---------------------------------------------------------------------------
(* Writes through dst: a sequence of <<offset, byte>> pairs, in program    *)
(* order.  The destination is the surface's pixel buffer; a write at an    *)
(* offset at or beyond its size is a write out of bounds.                  *)

\* the bytes of a uint16 in host memory
HostBytes16(u, le) == IF le THEN <<u % 256, u \div 256>> ELSE <<u \div 256, u % 256>>

\* *dst++ = data for the units of one scan line, dst starting at base
RowWrites(base, out, w, le) ==
    [k \in 1..(w * Len(out)) |->
        <<base + k - 1,
          IF w = 1 THEN out[k]
          ELSE HostBytes16(out[(k + 1) \div 2], le)[((k - 1) % 2) + 1]>>]

\* memcpy(dst, src + off, n)
CopyWrites(m, off, n) == [k \in 1..n |-> <<k - 1, At(m, off + k - 1)>>]

LastHit(ws, o) ==
    LET hits == {k \in 1..Len(ws) : ws[k][1] = o}
    IN  IF hits = {} THEN 0 ELSE CHOOSE k \in hits : \A l \in hits : l <= k

\* the pixel buffer after the writes
Apply(pixels, ws) ==
    [i \in 1..Len(pixels) |->
        IF LastHit(ws, i - 1) = 0 THEN pixels[i] ELSE ws[LastHit(ws, i - 1)][2]]

Wild(pixels, ws) == \E k \in 1..Len(ws) : ws[k][1] >= Len(pixels)

---------------------------------------------------------------------------
(* The depth-specific decompressors.  Each returns [ws, sp, hi, rows, bad]:*)
(* the writes, the source offset after the last line, the highest source   *)
(* offset read, the number of scan lines decoded, and whether the          *)
(* temporary buffer was overrun.                                           *)

NoRows(i) == [ws |-> <<>>, sp |-> i, hi |-> -1, rows |-> 0, bad |-> FALSE]

\* the result of one scan line (its writes ws, highest read hi, overrun bad)
\* followed by the result rest of the lines after it
Rows(ws, hi, bad, rest) ==
    [ws |-> ws \o rest.ws, sp |-> rest.sp, hi |-> Max(hi, rest.hi),
     rows |-> 1 + rest.rows, bad |-> bad \/ rest.bad]

\* uncompress_rle8 (w = 1) and uncompress_rle16 (w = 2), from line y on:
\* "src = unpack_bits(src, row_bytes, dst); dst += dst_pitch;"
RECURSIVE RleRows(_, _, _, _, _, _, _, _)
RleRow(m, st, rb, w, pitch, height, y, le) ==
    Rows(RowWrites(y * pitch, st.out, w, le), st.hi, FALSE,
         RleRows(m, st.sp, rb, w, pitch, height, y + 1, le))

RleRows(m, i, rb, w, pitch, height, y, le) ==
    IF y >= height THEN NoRows(i)
    ELSE RleRow(m, unpack_bits(m, i, rb, w), rb, w, pitch, height, y, le)

\* mutant of ComponentOffset: the offsets of the two byte orders swapped
ComponentOffset_Swapped(component, le) ==
    IF le THEN component + 1 ELSE 2 - component

\* "dst += 2 - component" (LITTLE_ENDIAN) or "dst += component + 1"
ComponentOffset(component, le) ==
    IF le THEN 2 - component ELSE component + 1

\* copy_component_into_surface(tmp + from, dst + base, count, component)
copy_component_into_surface(tmp, from, base, count, component, le) ==
    [k \in 1..count |->
        <<base + ComponentOffset(component, le) + 4 * (k - 1), tmp[from + k]>>]

\* tmp after unpack_bits wrote out into it (the bytes that fit)
TmpAfter(tmp, out) ==
    [k \in 1..Len(tmp) |-> IF k <= Len(out) THEN out[k] ELSE tmp[k]]

\* the three copy_component_into_surface calls of one line
ScatterRow(t1, base, width, le) ==
    copy_component_into_surface(t1, 0, base, width, 0, le)
    \o copy_component_into_surface(t1, width, base, width, 1, le)
    \o copy_component_into_surface(t1, width * 2, base, width, 2, le)

\* the loop of uncompress_rle32, from line y on; tmp is the temporary
\* buffer as the lines before left it
RECURSIVE Rle32Rows(_, _, _, _, _, _, _, _)
Rle32Row(m, st, rb, pitch, height, y, t1, le) ==
    Rows(ScatterRow(t1, y * pitch, rb \div 4, le), st.hi, Len(st.out) > rb,
         Rle32Rows(m, st.sp, rb, pitch, height, y + 1, t1, le))

Rle32Unpacked(m, st, rb, pitch, height, y, tmp, le) ==
    Rle32Row(m, st, rb, pitch, height, y, TmpAfter(tmp, st.out), le)

Rle32Rows(m, i, rb, pitch, height, y, tmp, le) ==
    IF y >= height THEN NoRows(i)
    ELSE Rle32Unpacked(m, unpack_bits(m, i, rb, 1), rb, pitch, height, y, tmp, le)

\* uncompress_rle32: tmpOk is whether malloc(row_bytes) succeeded; the
\* fresh buffer holds indeterminate bytes
uncompress_rle32(m, i, rb, pitch, height, tmpOk, le) ==
    IF ~tmpOk THEN NoRows(i)
    ELSE Rle32Rows(m, i, rb, pitch, height, 0, Rep(rb, m.junk), le)

---------------------------------------------------------------------------
(* uncompress_picture *)

\* byte_swap_memory(dst, _2byte or _4byte, count): the first count fields
\* of size bytes each are brought from big-endian to host order
byte_swap_memory(pixels, size, count, le) ==
    IF ~le THEN pixels
    ELSE [i \in 1..Len(pixels) |->
            IF i <= size * count
            THEN pixels[((i - 1) \div size) * size + (size - ((i - 1) % size))]
            ELSE pixels[i]]

\* mutant of DefaultPackType: pack type 0 becomes 3 at every depth
DefaultPackType_Always3(pack_type, depth) ==
    IF pack_type = 0 THEN 3 ELSE pack_type

\* mutant of DefaultPackType: the pack type is taken as given
DefaultPackType_AsGiven(pack_type, depth) ==
    pack_type

\* "if (pack_type == 0) ..."
DefaultPackType(pack_type, depth) ==
    IF pack_type = 0
    THEN (IF depth = 16 THEN 3 ELSE IF depth = 32 THEN 4 ELSE 0)
    ELSE pack_type

\* the result of a decompressor, as the result of uncompress_picture:
\* [pixels, wild, hi, rows, exit]
Decoded(pixels, r) ==
    [pixels |-> Apply(pixels, r.ws),
     wild   |-> Wild(pixels, r.ws) \/ r.bad,
     hi     |-> r.hi,
     rows   |-> r.rows,
     exit   |-> FALSE]

\* mutant of Copied: the last byte is not copied
Copied_Short(m, i, n, pixels, height) ==
    Decoded(pixels, [ws |-> CopyWrites(m, i, Max(n - 1, 0)), sp |-> i + n,
                     hi |-> IF n > 0 THEN i + n - 1 ELSE -1,
                     rows |-> height, bad |-> FALSE])

Copied(m, i, n, pixels, height) ==
    Decoded(pixels, [ws |-> CopyWrites(m, i, n), sp |-> i + n,
                     hi |-> IF n > 0 THEN i + n - 1 ELSE -1,
                     rows |-> height, bad |-> FALSE])

\* uncompress_picture(src + i, rb, dst, pitch, depth, height, pack_type)
uncompress_picture(m, i, rb, pixels, pitch, depth, height, pack_type, tmpOk, le) ==
    IF rb < 8
    THEN Copied(m, i, rb * height, pixels, height)
    ELSE IF depth = 8
    THEN Decoded(pixels, RleRows(m, i, rb, 1, pitch, height, 0, le))
    ELSE LET pt == DefaultPackType(pack_type, depth)
         IN  CASE pt = 1 ->
                    LET c == Copied(m, i, rb * height, pixels, height)
                    IN  IF depth = 16
                        THEN [c EXCEPT !.pixels =
                                byte_swap_memory(@, 2, (pitch * height) \div 2, le)]
                        ELSE IF depth = 32
                        THEN [c EXCEPT !.pixels =
                                byte_swap_memory(@, 4, (pitch * height) \div 4, le)]
                        ELSE c
               [] pt = 3 ->
                    Decoded(pixels, RleRows(m, i, rb, 2, pitch, height, 0, le))
               [] pt = 4 ->
                    Decoded(pixels, uncompress_rle32(m, i, rb, pitch, height, tmpOk, le))
               [] OTHER ->
                    [Decoded(pixels, NoRows(i)) EXCEPT !.exit = TRUE]

---------------------------------------------------------------------------
(* The SDL_RWops stream over the resource (SDL_RWFromMem).  A seek stops   *)
(* at the ends of the buffer.  SDL_ReadBE16 with fewer than two bytes left *)
(* returns what its uninitialized local holds; st is that value.           *)

Min(a, b) == IF a <= b THEN a ELSE b

\* SDL_RWseek(p, n, SEEK_CUR)
Seek(buf, pos, n) == Max(0, Min(pos + n, Len(buf)))

\* whether SDL_ReadBE16 at pos finds fewer than two bytes
Short(buf, pos) == pos + 2 > Len(buf)

\* the value of SDL_ReadBE16(p)
Rd16(buf, pos, st) ==
    IF Short(buf, pos) THEN st ELSE buf[pos + 1] * 256 + buf[pos + 2]

\* the offset after SDL_ReadBE16(p)
Adv(buf, pos) == Min(pos + 2, Len(buf))

\* what the uninitialized local of a short read may hold: the opcodes NOP
\* and OpEndPic, and a value that is no opcode
StaleWords == {0, 255, 65535}

---------------------------------------------------------------------------
(* picture_to_surface: the image case *)

NoSurface == [ok |-> FALSE]
NoObs == [short |-> FALSE, oob |-> FALSE, wild |-> FALSE, rows |-> 0,
          nullpal |-> FALSE]
DefaultEnv == [le |-> TRUE, surfOk |-> TRUE, tmpOk |-> TRUE]
NoImage == [set |-> FALSE]

\* "1. PixMap": the locals read from the stream, pos the offset after them
ParsePixMap(buf, pos, opcode, st) ==
    LET a0 == IF opcode = 154 THEN Seek(buf, pos, 4) ELSE pos
        a1 == Adv(buf, a0)
        a2 == Adv(buf, a1)
        a3 == Adv(buf, a2)
        a4 == Adv(buf, a3)
        a5 == Adv(buf, a4)
        a6 == Seek(buf, a5, 2)
        a7 == Adv(buf, a6)
        a8 == Seek(buf, a7, 14)
        a9 == Adv(buf, a8)
        top == Rd16(buf, a1, st)
        left == Rd16(buf, a2, st)
    IN  [set        |-> TRUE,
         opcode     |-> opcode,
         row_bytes  |-> Rd16(buf, a0, st) % 16384,
         top        |-> top,
         left       |-> left,
         height     |-> U16(Rd16(buf, a3, st) - top),
         width      |-> U16(Rd16(buf, a4, st) - left),
         pack_type  |-> Rd16(buf, a6, st),
         pixel_size |-> Rd16(buf, a8, st),
         pos        |-> Seek(buf, a9, 16),
         short      |-> Short(buf, a8)]

\* SDL_CalculatePitch: the bytes of a row, 4-byte aligned
Pitch(width, depth) ==
    LET raw == width * ((depth + 7) \div 8)
        row == IF depth = 1 THEN (raw + 7) \div 8
               ELSE IF depth = 4 THEN (raw + 1) \div 2 ELSE raw
    IN  ((row + 3) \div 4) * 4

\* the number of palette entries of a surface (0: no palette)
PaletteSize(depth) == IF depth <= 8 THEN 2 ^ depth ELSE 0

\* SDL_CreateRGBSurface(SDL_SWSURFACE, width, height, depth, ...) when it
\* succeeds: zeroed pixels; colors holds the palette entries written so far
CreateSurface(width, height, depth) ==
    [ok      |-> TRUE,
     w       |-> width,
     h       |-> height,
     depth   |-> depth,
     pitch   |-> Pitch(width, depth),
     pixels  |-> Rep(height * Pitch(width, depth), 0),
     ncolors |-> PaletteSize(depth),
     colors  |-> <<>>]

\* entry k of the palette of a new 8-bit surface: SDL_CreateRGBSurface is
\* given the masks 0xff, 0xff, 0xff and SDL 1.2 (SDL_AllocFormat) fills a
\* palette "according to masks", here r = g = b = k & 0xff
DefaultColor(k) == [r |-> k % 256, g |-> k % 256, b |-> k % 256]

\* entry k of the palette of surface s0: as written, or as created
PaletteEntry(s0, k) ==
    IF k \in DOMAIN s0.colors THEN s0.colors[k] ELSE DefaultColor(k)

\* pal->colors[value] = rgb
SetColor(colors, value, rgb) ==
    [i \in (DOMAIN colors) \cup {value} |-> IF i = value THEN rgb ELSE colors[i]]

\* mutant of ChannelByte: the low byte of the channel is stored
ChannelByte_Low(x) == x % 256

\* "SDL_ReadBE16(p) >> 8"
ChannelByte(x) == x \div 256

\* "2. ColorTable": the loop over num_colors entries, n entries to go.
\* Once an entry starts at the end of the stream every further entry reads
\* the same stale words, so one more entry stands for all that remain.
RECURSIVE LoadColors(_, _, _, _, _, _)
LoadColors(buf, pos, n, colors, ncolors, st) ==
    IF n = 0
    THEN [pos |-> pos, colors |-> colors, wild |-> FALSE, short |-> FALSE]
    ELSE LET p1 == Adv(buf, pos)
             p2 == Adv(buf, p1)
             p3 == Adv(buf, p2)
             p4 == Adv(buf, p3)
             value == U8(Rd16(buf, pos, st))
             rgb == [r |-> ChannelByte(Rd16(buf, p1, st)),
                     g |-> ChannelByte(Rd16(buf, p2, st)),
                     b |-> ChannelByte(Rd16(buf, p3, st))]
             inside == value < ncolors
             new == IF inside THEN SetColor(colors, value, rgb) ELSE colors
             rest == IF Short(buf, pos)
                     THEN [pos |-> p4, colors |-> new, wild |-> FALSE, short |-> TRUE]
                     ELSE LoadColors(buf, p4, n - 1, new, ncolors, st)
         IN  [pos    |-> rest.pos,
              colors |-> rest.colors,
              wild   |-> ~inside \/ rest.wild,
              short  |-> Short(buf, p3) \/ rest.short]

\* The image case of the switch.  Inputs: st (stale word), j (junk byte),
\* le (host byte order), surfOk and tmpOk (whether SDL_CreateRGBSurface and
\* malloc succeed).  Result: [pc, s, pos, img, short, oob, wild, rows,
\* nullpal].

ImageResult(pc1, s1, pos, pm, short, oob, wild, rows, nullpal) ==
    [pc |-> pc1, s |-> s1, pos |-> pos, img |-> pm, short |-> short,
     oob |-> oob, wild |-> wild, rows |-> rows, nullpal |-> nullpal]

\* mutant of AfterData: done stays false
AfterData_NotDone(buf, pm, s0, ct, d0, u) ==
    ImageResult(IF u.exit THEN "exited" ELSE "loop",
                [s0 EXCEPT !.colors = ct.colors, !.pixels = u.pixels],
                d0, pm, pm.short \/ ct.short,
                u.hi >= Len(buf), u.wild \/ ct.wild, u.rows, FALSE)

\* "4. graphics data", "done = true": u is what uncompress_picture did
AfterData(buf, pm, s0, ct, d0, u) ==
    ImageResult(IF u.exit THEN "exited" ELSE "done",
                [s0 EXCEPT !.colors = ct.colors, !.pixels = u.pixels],
                d0, pm, pm.short \/ ct.short,
                u.hi >= Len(buf), u.wild \/ ct.wild, u.rows, FALSE)

\* "3. source/destination Rect and transfer mode", then the data from the
\* offset SDL_RWtell(p)
AfterTable(buf, pm, s0, ct, d0, j, le, tmpOk) ==
    AfterData(buf, pm, s0, ct, d0,
              uncompress_picture([b |-> buf, junk |-> j], d0, pm.row_bytes,
                                 s0.pixels, s0.pitch, pm.pixel_size, pm.height,
                                 pm.pack_type, tmpOk, le))

AfterColors(buf, pm, s0, ct, j, le, tmpOk) ==
    AfterTable(buf, pm, s0, ct, Seek(buf, ct.pos, 18), j, le, tmpOk)

NoTable(pos, colors, short) ==
    [pos |-> pos, colors |-> colors, wild |-> FALSE, short |-> short]

\* "2. ColorTable" with the stream at c0 after ctSeed/ctFlags.  A surface
\* without a palette makes pal a null pointer: every entry is then written
\* through it (nullpal, and wild from LoadColors).
ColorTable(buf, pm, s0, c0, st, j, le, tmpOk) ==
    [AfterColors(buf, pm, s0,
                 LoadColors(buf, Adv(buf, c0), Rd16(buf, c0, st) + 1,
                            s0.colors, s0.ncolors, st),
                 j, le, tmpOk)
        EXCEPT !.nullpal = (s0.ncolors = 0)]

\* the surface s0 was created
WithSurface(buf, pm, s0, st, j, le, tmpOk) ==
    IF pm.opcode = 152
    THEN ColorTable(buf, pm, s0, Seek(buf, pm.pos, 6), st, j, le, tmpOk)
    ELSE AfterColors(buf, pm, s0, NoTable(pm.pos, s0.colors, FALSE), j, le, tmpOk)

\* "Allocate surface for picture"
WithPixMap(buf, pm, st, j, le, surfOk, tmpOk) ==
    IF ~surfOk
    THEN ImageResult("done", NoSurface, pm.pos, pm, pm.short,
                     FALSE, FALSE, 0, FALSE)
    ELSE WithSurface(buf, pm, CreateSurface(pm.width, pm.height, pm.pixel_size),
                     st, j, le, tmpOk)

\* case 0x0098, case 0x009a: pos is the offset after the opcode
CopyBits(buf, pos, opcode, st, j, le, surfOk, tmpOk) ==
    WithPixMap(buf, ParsePixMap(buf, pos, opcode, st), st, j, le, surfOk, tmpOk)

---------------------------------------------------------------------------
(* Packed scan lines: the inputs of unpack_bits.  A scan line is packed    *)
(* from a sequence of runs; a run is [rep, n, v]: a repeat run of n copies *)
(* of unit v, or a literal run of n units starting at v and stepping by    *)
(* Stride (so neighbouring units, and both bytes of a unit, differ).       *)

\* number of runs of a line with more than one run
MaxRuns == 2
\* run lengths 1..MaxSmall are used in lines of more than one run
MaxSmall == 3

UnitMod(w) == IF w = 1 THEN 256 ELSE 65536
Stride(w) == IF w = 1 THEN 1 ELSE 257

\* unit values of the runs: low, high-bit-set and all-ones bytes
RunVals(w) == IF w = 1 THEN {17, 128, 255} ELSE {4386, 33023, 65280}
LitBases(w) == IF w = 1 THEN {17, 250} ELSE {4386, 65280}

\* every run a control byte can express: repeat -128..-1, literal 0..127
AllRuns(w) ==
    [rep : {TRUE}, n : 2..129, v : RunVals(w)] \cup
    [rep : {FALSE}, n : 1..128, v : LitBases(w)]

SmallRuns(w) ==
    [rep : {TRUE}, n : (2..MaxSmall) \cup {129}, v : RunVals(w)] \cup
    [rep : {FALSE}, n : (1..MaxSmall) \cup {128}, v : LitBases(w)]

Lines(w) ==
    {<<r>> : r \in AllRuns(w)} \cup
    UNION {[1..k -> SmallRuns(w)] : k \in 2..MaxRuns}

\* the units a run stands for
RunUnits(r, w) ==
    IF r.rep THEN [i \in 1..r.n |-> r.v]
    ELSE [i \in 1..r.n |-> (r.v + (i - 1) * Stride(w)) % UnitMod(w)]

RECURSIVE LineUnits(_, _)
LineUnits(runs, w) ==
    IF runs = <<>> THEN <<>>
    ELSE RunUnits(Head(runs), w) \o LineUnits(Tail(runs), w)

\* a unit as stored in the packed stream: big-endian
UnitBytes(u, w) == IF w = 1 THEN <<u>> ELSE <<u \div 256, u % 256>>

\* a sequence of units as stored in the packed stream
UnitsBytes(us, w) ==
    [k \in 1..(w * Len(us)) |-> UnitBytes(us[(k + w - 1) \div w], w)[((k - 1) % w) + 1]]

\* the control byte of a run, as an unsigned byte
ControlByte(r) == IF r.rep THEN 257 - r.n ELSE r.n - 1

PackRun(r, w) ==
    <<ControlByte(r)>> \o
    (IF r.rep THEN UnitBytes(r.v, w) ELSE UnitsBytes(RunUnits(r, w), w))

RECURSIVE PackRuns(_, _)
PackRuns(runs, w) ==
    IF runs = <<>> THEN <<>>
    ELSE PackRun(Head(runs), w) \o PackRuns(Tail(runs), w)

\* the length prefix of a packed line of rb bytes per row
PackPrefix(rb, n) == IF rb > 250 THEN <<n \div 256, n % 256>> ELSE <<n>>

PrefixLen(rb) == IF rb > 250 THEN 2 ELSE 1

LineRowBytes(runs, w) == w * Len(LineUnits(runs, w))

PackLine(runs, w) ==
    PackPrefix(LineRowBytes(runs, w), Len(PackRuns(runs, w))) \o PackRuns(runs, w)

\* the source counts a line is given: the length of its packed runs and,
\* for a line of several runs, a count that ends inside the last run
Counts(runs, w) ==
    {Len(PackRuns(runs, w))} \cup
    (IF Len(runs) > 1 THEN {Len(PackRuns(runs, w)) - 1} ELSE {})

\* the packed length fits the prefix
Packable(runs, w) ==
    Len(PackRuns(runs, w)) <= (IF LineRowBytes(runs, w) > 250 THEN 65535 ELSE 255)

---------------------------------------------------------------------------
(* The call unpack_bits<T>(src, row_bytes, dst), step by step *)

Mem(j) == [b |-> src, junk |-> j]
UState == [sp |-> sp, cnt |-> src_count, out |-> dst, hi |-> -1]

PIdle ==
    /\ rsrc = <<>> /\ p = 0 /\ pc = "idle" /\ s = NoSurface /\ op = -1
    /\ img = NoImage /\ env = DefaultEnv /\ obs = NoObs
    /\ pict = [im |-> NoImage, full |-> TRUE]

\* no pair of calls
CIdle == calls = <<>>

UInit ==
    /\ unit \in {1, 2}
    /\ line \in {l \in Lines(unit) : Packable(l, unit)}
    /\ \E n \in Counts(line, unit) :
          src = PackPrefix(LineRowBytes(line, unit), n) \o PackRuns(line, unit)
    /\ row_bytes = LineRowBytes(line, unit)
    /\ sp = 0 /\ src_count = 0 /\ dst = <<>> /\ upc = "start"
    /\ PIdle /\ CIdle

UApply(st) ==
    /\ sp' = st.sp
    /\ src_count' = st.cnt
    /\ dst' = st.out
    /\ UNCHANGED <<src, row_bytes, unit, line, pvars, cvars>>

UReadCount ==
    /\ upc = "start"
    /\ \E j \in JunkBytes : UApply(ReadCount(Mem(j), sp, row_bytes))
    /\ upc' = "loop"

URepeatRun ==
    /\ upc = "loop" /\ src_count > 0
    /\ \E j \in JunkBytes :
          /\ Int8(At(Mem(j), sp)) < 0
          /\ UApply(UnpackRun(Mem(j), UState, unit))
    /\ upc' = "loop"

ULiteralRun ==
    /\ upc = "loop" /\ src_count > 0
    /\ \E j \in JunkBytes :
          /\ Int8(At(Mem(j), sp)) >= 0
          /\ UApply(UnpackRun(Mem(j), UState, unit))
    /\ upc' = "loop"

UReturn ==
    /\ upc = "loop" /\ src_count <= 0
    /\ upc' = "ret"
    /\ UNCHANGED <<src, row_bytes, unit, sp, src_count, dst, line, pvars,
                 cvars>>

UNext == UReadCount \/ URepeatRun \/ ULiteralRun \/ UReturn

SpecUnpack == UInit /\ [][UNext]_vars

---------------------------------------------------------------------------
(* Picture resources: the inputs of picture_to_surface *)

\* opcodes before the image in a resource
MaxOps == 2
\* width and height of an uncompressed 8-bit image
MaxW == 3
MaxH == 2
\* entries of a colour table
MaxColors == 2

W16(x) == <<x \div 256, x % 256>>

RECURSIVE Concat(_)
Concat(ss) == IF ss = <<>> THEN <<>> ELSE Head(ss) \o Concat(Tail(ss))

\* picSize and picRect
PictHeader == Rep(10, 0)

\* payload bytes: 0xaa, so that a payload taken for an opcode is no opcode
Payload(n) == Rep(n, 170)

LongLens == {0, 3}
ClipSizes == {0, 1, 2, 10}

\* one opcode with its payload
PrefixOps ==
    {W16(0), W16(17), W16(30), W16(767)} \cup
    {W16(160) \o Payload(2)} \cup
    {W16(161) \o Payload(2) \o W16(n) \o Payload(n) : n \in LongLens} \cup
    {W16(3072) \o Payload(24)} \cup
    {W16(1) \o W16(z) \o Payload(Max(z - 2, 0)) : z \in ClipSizes} \cup
    {W16(4660), W16(153)}

OpSeqs == UNION {[1..k -> PrefixOps] : k \in 0..MaxOps}

OpEndPic == W16(255)

\* an image opcode with PixMap, colour table, rectangles and data.
\* im = [opcode, flags, row_bytes, top, left, height, width, pack_type,
\*       depth, ct, data]; ct is a sequence of [i, r, g, b]
ColorTableBytes(ct) ==
    Rep(6, 0) \o W16(Len(ct) - 1) \o
    Concat([k \in 1..Len(ct) |->
               W16(ct[k].i) \o W16(ct[k].r) \o W16(ct[k].g) \o W16(ct[k].b)])

PixMapBytes(im) ==
    W16(im.opcode) \o (IF im.opcode = 154 THEN Rep(4, 0) ELSE <<>>) \o
    W16(im.flags + im.row_bytes) \o
    W16(im.top) \o W16(im.left) \o
    W16(im.top + im.height) \o W16(im.left + im.width) \o
    Rep(2, 0) \o W16(im.pack_type) \o Rep(14, 0) \o W16(im.depth) \o Rep(16, 0)

ImageHead(im) ==
    PixMapBytes(im) \o
    (IF im.opcode = 152 THEN ColorTableBytes(im.ct) ELSE <<>>) \o Rep(18, 0)

ImageBytes(im) == ImageHead(im) \o im.data

\* n data bytes, all different from their neighbours and from zero
Pattern(n) == [k \in 1..n |-> 16 + k]

\* colour table entries: channels whose high and low bytes differ; an
\* index above 255 (only its low byte counts)
CtEntries ==
    {[i |-> 0, r |-> 4660, g |-> 22136, b |-> 39612],
     [i |-> 255, r |-> 65280, g |-> 255, b |-> 32768],
     [i |-> 257, r |-> 43981, g |-> 0, b |-> 65535]}

ColorTables == UNION {[1..k -> CtEntries] : k \in 1..MaxColors}

OneColor == <<[i |-> 1, r |-> 4660, g |-> 22136, b |-> 39612]>>

\* kind names the family of the image; rows are the runs its packed rows
\* were made from
Image(kind, opcode, flags, rb, top, left, h, w, pack, depth, ct, rows, data) ==
    [set |-> TRUE, kind |-> kind, rows |-> rows, opcode |-> opcode,
     flags |-> flags, row_bytes |-> rb, top |-> top, left |-> left,
     height |-> h, width |-> w, pack_type |-> pack, depth |-> depth,
     ct |-> ct, data |-> data]

\* a packed line of rb bytes per row
PackLineRB(runs, w, rb) ==
    PackPrefix(rb, Len(PackRuns(runs, w))) \o PackRuns(runs, w)

Run(rep, n, v) == [rep |-> rep, n |-> n, v |-> v]

\* uncompressed 8-bit images (row_bytes < 8): every size with one colour
\* table, and every colour table with one size; v is <<flags, top, left>>
Plain8 ==
    {Image("plain8", oc, v[1], w, v[2], v[3], h, w, 0, 8,
           IF oc = 152 THEN OneColor ELSE <<>>, <<>>, Pattern(w * h)) :
        oc \in {152, 154}, w \in 1..MaxW, h \in 1..MaxH,
        v \in {<<0, 0, 0>>, <<32768, 5, 7>>}} \cup
    {Image("plain8", 152, v[1], 2, v[2], v[3], 2, 2, 0, 8, ct, <<>>, Pattern(4)) :
        v \in {<<0, 0, 0>>, <<32768, 5, 7>>}, ct \in ColorTables}

\* the packed rows of 8-bit, 16-bit and 32-bit images of 8 bytes per row
Rows8 == {<<Run(TRUE, 8, 17)>>, <<Run(FALSE, 8, 33)>>,
          <<Run(TRUE, 3, 255), Run(FALSE, 5, 128)>>}
Rows16 == {<<Run(TRUE, 4, 4386)>>, <<Run(FALSE, 4, 33023)>>,
           <<Run(FALSE, 2, 65280), Run(TRUE, 2, 255)>>}
Rows32 == {<<Run(TRUE, 2, 17), Run(TRUE, 2, 34), Run(TRUE, 2, 51)>>,
           <<Run(FALSE, 6, 161)>>,
           <<Run(FALSE, 3, 1), Run(TRUE, 3, 240)>>}

RowSeqs(rows) == UNION {[1..h -> rows] : h \in 1..MaxH}

PackedData(rs, w, rb) == Concat([y \in 1..Len(rs) |-> PackLineRB(rs[y], w, rb)])

Rle8 ==
    {Image("rle8", oc, 32768, 8, 0, 0, Len(rs), 8, pk, 8,
           IF oc = 152 THEN OneColor ELSE <<>>, rs, PackedData(rs, 1, 8)) :
        oc \in {152, 154}, pk \in {0, 2}, rs \in RowSeqs(Rows8)}

Rle16 ==
    {Image("rle16", oc, 32768, 8, 0, 0, Len(rs), 4, pk, 16,
           IF oc = 152 THEN OneColor ELSE <<>>, rs, PackedData(rs, 2, 8)) :
        oc \in {152, 154}, pk \in {0, 3}, rs \in RowSeqs(Rows16)}

Rle32 ==
    {Image("rle32", 154, 32768, 8, 0, 0, Len(rs), 2, pk, 32, <<>>, rs,
           PackedData(rs, 1, 8)) :
        pk \in {0, 4}, rs \in RowSeqs(Rows32)}

\* pack type 1, unimplemented pack types, and depths other than 8, 16, 32
OtherImages ==
    {Image("other", 154, 32768, 8, 0, 0, h, 64 \div dp, pk, dp, <<>>, <<>>,
           Pattern(8 * h)) :
        h \in 1..MaxH, pk \in {0, 1, 2, 5}, dp \in {16, 24, 32}} \cup
    {Image("other", oc, 0, 3, 0, 0, h, 1, 0, 24,
           IF oc = 152 THEN OneColor ELSE <<>>, <<>>, Pattern(3 * h)) :
        oc \in {152, 154}, h \in 1..MaxH}

\* 16-bit and 32-bit images of one pixel per row with row_bytes < 8, of
\* every pack type
PlainDeep ==
    {Image("plain", 154, 32768, dp \div 8, 0, 0, h, 1, pk, dp, <<>>, <<>>,
           Pattern((dp \div 8) * h)) :
        h \in 1..MaxH, pk \in 0..5, dp \in {16, 32}}

\* images whose explicit pack type is the one the other depth defaults to:
\* 16-bit chunks at depth 32, one component at a time at depth 16
CrossPacked ==
    {Image("cross", 154, 32768, 8, 0, 0, Len(rs), 2, 3, 32, <<>>, rs,
           PackedData(rs, 2, 8)) : rs \in RowSeqs(Rows16)} \cup
    {Image("cross", 154, 32768, 8, 0, 0, Len(rs), 4, 4, 16, <<>>, rs,
           PackedData(rs, 1, 8)) : rs \in RowSeqs(Rows8)}

\* images whose data is larger than the rows of the surface: row_bytes
\* above the pitch on the two copying paths, and packed rows that unpack to
\* twelve bytes where row_bytes and the pitch are eight
Oversized ==
    {Image("over", 154, 0, 6, 0, 0, h, 3, 0, 8, <<>>, <<>>, Pattern(6 * h)) :
        h \in 1..MaxH} \cup
    {Image("over", 154, 32768, 8, 0, 0, h, 2, 1, 16, <<>>, <<>>, Pattern(8 * h)) :
        h \in 1..MaxH} \cup
    {Image("over", 154, 32768, 8, 0, 0, 1, 64 \div dp, 0, dp, <<>>,
           <<<<Run(TRUE, 96 \div dp, 17)>>>>,
           PackLineRB(<<Run(TRUE, 96 \div dp, 17)>>, IF dp = 16 THEN 2 ELSE 1, 8)) :
        dp \in {8, 16}} \cup
    {Image("over", 154, 32768, 8, 0, 0, 1, 2, 0, 32, <<>>,
           <<<<Run(TRUE, 12, 17)>>>>, PackLineRB(<<Run(TRUE, 12, 17)>>, 1, 8))}

\* the packed rows of images of ten bytes per row
Rows10 == {<<Run(TRUE, 10, 17)>>, <<Run(FALSE, 10, 33)>>}
Rows10x16 == {<<Run(TRUE, 5, 4386)>>, <<Run(FALSE, 5, 33023)>>}

\* images whose pitch is not row_bytes: 8-bit rows of ten pixels and 16-bit
\* rows of five (pitch 12), packed and with pack type 1, and 32-bit rows of
\* eight bytes in a surface three pixels wide
Strided ==
    {Image("strided", 154, 32768, 10, 0, 0, Len(rs), 10, 0, 8, <<>>, rs,
           PackedData(rs, 1, 10)) : rs \in RowSeqs(Rows10)} \cup
    {Image("strided", 154, 32768, 10, 0, 0, Len(rs), 5, 0, 16, <<>>, rs,
           PackedData(rs, 2, 10)) : rs \in RowSeqs(Rows10x16)} \cup
    {Image("strided", 154, 32768, 8, 0, 0, Len(rs), 3, 0, 32, <<>>, rs,
           PackedData(rs, 1, 8)) : rs \in RowSeqs(Rows32)} \cup
    {Image("strided", 154, 32768, 10, 0, 0, h, 5, 1, 16, <<>>, <<>>,
           Pattern(10 * h)) : h \in 1..MaxH}

\* where a resource may be cut short, as the number of bytes kept: after
\* the image opcode, after the image head, in the data, before OpEndPic
Cuts(pre, im) ==
    LET a == Len(pre)
        hd == Len(ImageHead(im))
        n == Len(im.data)
    IN  {a + 2, a + hd, a + hd + (n \div 2), a + hd + n - 1, a + hd + n,
         a + hd + n + 2}

Cut(bytes, n) == SubSeq(bytes, 1, Min(n, Len(bytes)))

Envs(les, surfs, tmps) == [le : les, surfOk : surfs, tmpOk : tmps]

\* full: the resource holds all bytes of the image
Scenario(bytes, e, im, full) ==
    [bytes |-> bytes, env |-> e, pict |-> [im |-> im, full |-> full]]

\* resources that walk the opcodes: any opcodes, then the end of the
\* picture, a small image, or nothing more
WalkScenarios ==
    LET tiny == Image("walk", 154, 0, 1, 0, 0, 1, 1, 0, 8, <<>>, <<>>, <<7>>)
    IN  {Scenario(PictHeader \o Concat(ops) \o tl, DefaultEnv, NoImage, TRUE) :
            ops \in OpSeqs,
            tl \in {<<>>, <<0>>, OpEndPic, ImageBytes(tiny) \o OpEndPic}}

ImageScenarios(ims, envs) ==
    LET pre == PictHeader \o W16(767)
    IN  UNION {{Scenario(Cut(pre \o ImageBytes(im) \o OpEndPic, n), e, im,
                            n >= Len(pre \o ImageBytes(im))) :
                   n \in Cuts(pre, im), e \in envs} : im \in ims}

\* what may follow the data of an image: nothing, half an opcode, the end
\* of the picture, an opcode that is not implemented, one more image
Trailers ==
    LET more == Image("trail", 152, 0, 2, 0, 0, 1, 2, 0, 8, OneColor, <<>>,
                      <<8, 9>>)
    IN  {<<>>, <<0>>, OpEndPic, W16(4660), ImageBytes(more) \o OpEndPic}

\* resources with one small image and something behind it
TrailScenarios ==
    LET one == Image("trail", 154, 0, 1, 0, 0, 1, 1, 0, 8, <<>>, <<>>, <<7>>)
    IN  {Scenario(PictHeader \o W16(767) \o ImageBytes(one) \o tl, DefaultEnv,
                  one, TRUE) : tl \in Trailers}

Scenarios ==
    WalkScenarios \cup TrailScenarios \cup
    ImageScenarios(Plain8, Envs({TRUE}, BOOLEAN, {TRUE})) \cup
    ImageScenarios(Rle8, Envs({TRUE}, {TRUE}, {TRUE})) \cup
    ImageScenarios(Rle16, Envs(BOOLEAN, {TRUE}, {TRUE})) \cup
    ImageScenarios(Rle32, Envs(BOOLEAN, {TRUE}, BOOLEAN)) \cup
    ImageScenarios(OtherImages, Envs(BOOLEAN, BOOLEAN, {TRUE})) \cup
    ImageScenarios(PlainDeep, Envs(BOOLEAN, {TRUE}, {TRUE})) \cup
    ImageScenarios(CrossPacked, Envs(BOOLEAN, {TRUE}, {TRUE})) \cup
    ImageScenarios(Oversized, Envs(BOOLEAN, {TRUE}, {TRUE})) \cup
    ImageScenarios(Strided, Envs(BOOLEAN, {TRUE}, {TRUE}))

---------------------------------------------------------------------------
(* The call picture_to_surface(rsrc), one loop iteration per step *)

UIdle ==
    /\ src = <<>> /\ row_bytes = 0 /\ unit = 1 /\ sp = 0 /\ src_count = 0
    /\ dst = <<>> /\ upc = "idle" /\ line = <<>>

Init ==
    /\ \E sc \in Scenarios : rsrc = sc.bytes /\ env = sc.env /\ pict = sc.pict
    /\ p = Seek(rsrc, 0, 10)
    /\ pc = "loop" /\ s = NoSurface /\ op = -1 /\ img = NoImage /\ obs = NoObs
    /\ UIdle /\ CIdle

\* an opcode other than the image opcodes: opcode = v is read at p, and the
\* stream is left at offset q; short says whether a read found the end
Skip(v, q, short) ==
    /\ op' = v
    /\ p' = q
    /\ obs' = [obs EXCEPT !.short = @ \/ short]
    /\ UNCHANGED <<rsrc, s, img, env, pict, uvars, cvars>>

\* NOP, VersionOp, DefHilite, Version
OpNone ==
    /\ pc = "loop"
    /\ \E st \in StaleWords :
          LET v == Rd16(rsrc, p, st)
          IN  /\ v \in {0, 17, 30, 767}
              /\ Skip(v, Adv(rsrc, p), Short(rsrc, p))
    /\ pc' = "loop"

OpShortComment ==
    /\ pc = "loop"
    /\ \E st \in StaleWords :
          LET v == Rd16(rsrc, p, st)
          IN  /\ v = 160
              /\ Skip(v, Seek(rsrc, Adv(rsrc, p), 2), Short(rsrc, p))
    /\ pc' = "loop"

\* mutant of OpLongComment: no comment kind in front of the size
OpLongComment_NoKind ==
    /\ pc = "loop"
    /\ \E st \in StaleWords :
          LET v == Rd16(rsrc, p, st)
              q == Adv(rsrc, p)
              size == Rd16(rsrc, q, st)
          IN  /\ v = 161
              /\ Skip(v, Seek(rsrc, Adv(rsrc, q), size), Short(rsrc, q))
    /\ pc' = "loop"

OpLongComment ==
    /\ pc = "loop"
    /\ \E st \in StaleWords :
          LET v == Rd16(rsrc, p, st)
              q == Seek(rsrc, Adv(rsrc, p), 2)
              size == Rd16(rsrc, q, st)
          IN  /\ v = 161
              /\ Skip(v, Seek(rsrc, Adv(rsrc, q), size), Short(rsrc, q))
    /\ pc' = "loop"

OpHeaderOp ==
    /\ pc = "loop"
    /\ \E st \in StaleWords :
          LET v == Rd16(rsrc, p, st)
          IN  /\ v = 3072
              /\ Skip(v, Seek(rsrc, Adv(rsrc, p), 24), Short(rsrc, p))
    /\ pc' = "loop"

OpEndPicture ==
    /\ pc = "loop"
    /\ \E st \in StaleWords :
          LET v == Rd16(rsrc, p, st)
          IN  /\ v = 255
              /\ Skip(v, Adv(rsrc, p), Short(rsrc, p))
    /\ pc' = "done"

OpClip ==
    /\ pc = "loop"
    /\ \E st \in StaleWords :
          LET v == Rd16(rsrc, p, st)
              q == Adv(rsrc, p)
              size == Rd16(rsrc, q, st)
          IN  /\ v = 1
              /\ Skip(v, Seek(rsrc, Adv(rsrc, q), size - 2), Short(rsrc, q))
    /\ pc' = "loop"

\* 0x0098 and 0x009a.  Once a read or write out of bounds or through a null
\* pointer has happened (fault), the call may also end in a crash.
OpImage ==
    /\ pc = "loop"
    /\ \E st \in StaleWords, j \in JunkBytes, fault \in BOOLEAN :
          LET v == Rd16(rsrc, p, st)
              r == CopyBits(rsrc, Adv(rsrc, p), v, st, j, env.le, env.surfOk, env.tmpOk)
          IN  /\ v \in {152, 154}
              /\ fault => (r.oob \/ r.wild)
              /\ op' = v
              /\ p' = r.pos
              /\ s' = r.s
              /\ img' = r.img
              /\ pc' = IF fault THEN "crashed" ELSE r.pc
              /\ obs' = [short |-> obs.short \/ r.short, oob |-> r.oob,
                         wild |-> r.wild, rows |-> r.rows, nullpal |-> r.nullpal]
    /\ UNCHANGED <<rsrc, env, pict, uvars, cvars>>

\* the case labels of the switch
Recognized == {0, 17, 30, 767, 160, 161, 3072, 255, 1, 152, 154}

\* mutant of OpUnknown: the loop ends and the call returns
OpUnknown_Done ==
    /\ pc = "loop"
    /\ \E st \in StaleWords :
          LET v == Rd16(rsrc, p, st)
          IN  /\ v \notin Recognized
              /\ Skip(v, Adv(rsrc, p), Short(rsrc, p))
    /\ pc' = "done"

\* default: "Unimplemented opcode", exit(1)
OpUnknown ==
    /\ pc = "loop"
    /\ \E st \in StaleWords :
          LET v == Rd16(rsrc, p, st)
          IN  /\ v \notin Recognized
              /\ Skip(v, Adv(rsrc, p), Short(rsrc, p))
    /\ pc' = "exited"

\* "Close stream, return surface"
Return ==
    /\ pc = "done"
    /\ pc' = "returned"
    /\ UNCHANGED <<rsrc, p, s, op, img, env, pict, obs, uvars, cvars>>

Next ==
    \/ OpNone \/ OpShortComment \/ OpLongComment \/ OpHeaderOp
    \/ OpEndPicture \/ OpClip \/ OpImage \/ OpUnknown \/ Return

Spec == Init /\ [][Next]_vars

---------------------------------------------------------------------------
(* Two calls of picture_to_surface on two resources, in two threads of one *)
(* process.  The function keeps all its state in locals and in objects it  *)
(* creates, so a call is a record of its own; exit(1) ends the process.    *)

\* the call picture_to_surface(buf) up to the loop
Start(buf) ==
    [rsrc |-> buf, p |-> Seek(buf, 0, 10), pc |-> "loop", s |-> NoSurface,
     op |-> -1, short |-> FALSE]

\* call c after an opcode v other than an image opcode
Skipped(c, v, q, short, pc1) ==
    [c EXCEPT !.op = v, !.p = q, !.pc = pc1,
              !.short = @ \/ Short(c.rsrc, c.p) \/ short]

\* call c after the image case; short also records a read or write out of
\* bounds
Imaged(c, v, r) ==
    [c EXCEPT !.op = v, !.p = r.pos, !.pc = r.pc, !.s = r.s,
              !.short = @ \/ r.short \/ r.oob \/ r.wild]

\* one iteration of while (!done) of call c: opcode v was read, the stream
\* is at q
Switch(c, v, q, st, j, e) ==
    CASE v \in {0, 17, 30, 767} -> Skipped(c, v, q, FALSE, "loop")
      [] v = 160 -> Skipped(c, v, Seek(c.rsrc, q, 2), FALSE, "loop")
      [] v = 161 ->
            Skipped(c, v,
                    Seek(c.rsrc, Adv(c.rsrc, Seek(c.rsrc, q, 2)),
                         Rd16(c.rsrc, Seek(c.rsrc, q, 2), st)),
                    Short(c.rsrc, Seek(c.rsrc, q, 2)), "loop")
      [] v = 3072 -> Skipped(c, v, Seek(c.rsrc, q, 24), FALSE, "loop")
      [] v = 255 -> Skipped(c, v, q, FALSE, "done")
      [] v = 1 ->
            Skipped(c, v, Seek(c.rsrc, Adv(c.rsrc, q), Rd16(c.rsrc, q, st) - 2),
                    Short(c.rsrc, q), "loop")
      [] v \in {152, 154} ->
            Imaged(c, v, CopyBits(c.rsrc, q, v, st, j, e.le, e.surfOk, e.tmpOk))
      [] OTHER -> Skipped(c, v, q, FALSE, "exited")

CallStep(c, st, j, e) ==
    Switch(c, Rd16(c.rsrc, c.p, st), Adv(c.rsrc, c.p), st, j, e)

\* "Close stream, return surface"
CallReturn(c) == [c EXCEPT !.pc = "returned"]

\* the resources of the two calls: complete, so that no read finds the end
PairResources ==
    LET one == Image("pair", 154, 0, 1, 0, 0, 1, 1, 0, 8, <<>>, <<>>, <<7>>)
        odd == Image("pair", 154, 32768, 8, 0, 0, 1, 4, 5, 16, <<>>, <<>>,
                     Pattern(8))
    IN  {PictHeader \o W16(767) \o OpEndPic,
         PictHeader \o W16(160) \o Payload(2) \o ImageBytes(one) \o OpEndPic,
         PictHeader \o W16(0) \o W16(161) \o Payload(2) \o W16(3) \o Payload(3)
             \o OpEndPic,
         PictHeader \o W16(767) \o W16(4660) \o OpEndPic,
         PictHeader \o W16(767) \o ImageBytes(odd) \o OpEndPic}

\* the process runs as long as no call has ended it
Alive == \A k \in DOMAIN calls : calls[k].pc \notin {"exited", "crashed"}

PairInit ==
    /\ calls \in [1..2 -> {Start(buf) : buf \in PairResources}]
    /\ PIdle /\ UIdle

\* mutant of PairStep: the two calls share one stream position
PairStep_SharedStream ==
    /\ Alive
    /\ \E i \in 1..2, st \in StaleWords, j \in JunkBytes :
          /\ calls[i].pc = "loop"
          /\ calls' = [k \in 1..2 |->
                          IF k = i THEN CallStep(calls[i], st, j, DefaultEnv)
                          ELSE [calls[k] EXCEPT
                                   !.p = CallStep(calls[i], st, j, DefaultEnv).p]]
    /\ UNCHANGED <<uvars, pvars>>

\* a thread runs one iteration of the loop of its call
PairStep ==
    /\ Alive
    /\ \E i \in 1..2, st \in StaleWords, j \in JunkBytes :
          /\ calls[i].pc = "loop"
          /\ calls' = [calls EXCEPT ![i] = CallStep(@, st, j, DefaultEnv)]
    /\ UNCHANGED <<uvars, pvars>>

\* a thread returns from its call
PairReturn ==
    /\ Alive
    /\ \E i \in 1..2 :
          /\ calls[i].pc = "done"
          /\ calls' = [calls EXCEPT ![i] = CallReturn(@)]
    /\ UNCHANGED <<uvars, pvars>>

PairNext == PairStep \/ PairReturn

SpecPair == PairInit /\ [][PairNext]_vars

---------------------------------------------------------------------------
(* Claims about unpack_bits, checked under SpecUnpack *)

\* the unit stored big-endian at offset i of src
SrcUnit(i) == IF unit = 1 THEN src[i + 1] ELSE src[i + 1] * 256 + src[i + 2]

\* C1: a loop iteration that reads a control byte c < 0 appends exactly
\* -c + 1 copies of the unit that follows it to the output and advances the
\* source by exactly 1 + unitWidth bytes.
C1_RepeatRun ==
    [][(upc = "loop" /\ src_count > 0 /\ src[sp + 1] >= 128) =>
          LET c == src[sp + 1] - 256
          IN  /\ dst' = dst \o [i \in 1..(1 - c) |-> SrcUnit(sp + 1)]
              /\ sp' = sp + 1 + unit
              /\ src_count' = src_count - (1 + unit)]_vars

\* a 16-bit line of one repeat run with control byte -128 has been unpacked
C1_Witness ==
    /\ upc = "ret" /\ unit = 2
    /\ line = <<[rep |-> TRUE, n |-> 129, v |-> 33023]>>
    /\ src[3] = 128
    /\ Len(dst) = 129 /\ sp = 5

\* C2: a loop iteration that reads a control byte c >= 0 consumes exactly
\* 1 + (c + 1) * unitWidth source bytes and appends the c + 1 units that
\* follow the control byte, in input order.
C2_LiteralRun ==
    [][(upc = "loop" /\ src_count > 0 /\ src[sp + 1] < 128) =>
          LET c == src[sp + 1]
          IN  /\ dst' = dst \o [i \in 1..(c + 1) |-> SrcUnit(sp + 1 + (i - 1) * unit)]
              /\ sp' = sp + 1 + (c + 1) * unit
              /\ src_count' = src_count - (1 + (c + 1) * unit)]_vars

\* a 16-bit line of one literal run with control byte 127 has been unpacked
C2_Witness ==
    /\ upc = "ret" /\ unit = 2
    /\ line = <<[rep |-> FALSE, n |-> 128, v |-> 65280]>>
    /\ src[3] = 127
    /\ Len(dst) = 128 /\ dst[1] = 65280 /\ dst[2] = 1 /\ sp = 259

\* the source count in front of the packed line
Declared ==
    IF row_bytes > 250 THEN src[1] * 256 + src[2] ELSE src[1]

\* the source count is the length of the packed runs
ExactCount == Len(src) = PrefixLen(row_bytes) + Declared

\* C3: when unpack_bits returns, the units written are exactly the scan line
\* that was packed (encode, prefix the length, decode = identity), for unit
\* widths 1 and 2.
C3_RoundTrip ==
    (upc = "ret" /\ ExactCount) => (dst = LineUnits(line, unit) /\ sp = Len(src))

\* a two-run 8-bit line longer than 250 bytes (16-bit prefix) came back
C3_Witness ==
    /\ upc = "ret" /\ unit = 1 /\ Len(line) = 2
    /\ line[1].rep /\ ~line[2].rep
    /\ row_bytes > 250 /\ ExactCount
    /\ dst = LineUnits(line, unit)

---------------------------------------------------------------------------
(* Claims about picture_to_surface, checked under Spec *)

\* the resource holds an image of family k
Holds(k) == pict.im.set /\ pict.im.kind = k

\* C4: no read is ever made at an offset at or beyond the end of the
\* buffer, and a resource whose headers are complete but which ends before
\* the data its image requires makes the decode fail: no image is returned.
C4_TruncatedInputFails ==
    /\ ~obs.oob
    /\ (pict.im.set /\ ~pict.full /\ ~obs.short /\ pc = "returned") => ~s.ok

\* C5: once a read of the opcode loop has found the end of the buffer the
\* loop is over: the end of the buffer is not taken for one more opcode.
C5_EndOfBufferEndsLoop ==
    obs.short => pc # "loop"

LastEntry(ct, k) ==
    ct[CHOOSE n \in 1..Len(ct) :
          /\ ct[n].i % 256 = k
          /\ \A m \in (n + 1)..Len(ct) : ct[m].i % 256 # k]

\* C7: a complete resource with a Version opcode and an 0x0098 image of
\* rowBytes < 8 and depth 8 (W x H pixel bytes, N colour table entries)
\* returns, when the surface can be allocated, a surface of width W,
\* height H and depth 8 whose palette holds at each declared index the high
\* bytes of the declared channels.
C7_Plain8Decodes ==
    (pc = "returned" /\ Holds("plain8") /\ pict.im.opcode = 152 /\ pict.full
       /\ env.surfOk) =>
        /\ s.ok /\ s.w = pict.im.width /\ s.h = pict.im.height /\ s.depth = 8
        /\ \A n \in 1..Len(pict.im.ct) :
              LET k == pict.im.ct[n].i % 256
                  e == LastEntry(pict.im.ct, k)
              IN  /\ k \in DOMAIN s.colors
                  /\ s.colors[k] = [r |-> (e.r - (e.r % 256)) \div 256,
                                    g |-> (e.g - (e.g % 256)) \div 256,
                                    b |-> (e.b - (e.b % 256)) \div 256]

\* a 2 x 2 image with entries for the indices 0 and 257 was decoded
C7_Witness ==
    /\ pc = "returned" /\ Holds("plain8") /\ pict.im.opcode = 152 /\ pict.full
    /\ pict.im.flags = 32768
    /\ pict.im.ct = <<[i |-> 0, r |-> 4660, g |-> 22136, b |-> 39612],
                      [i |-> 257, r |-> 43981, g |-> 0, b |-> 65535]>>
    /\ s.ok /\ s.w = 2 /\ s.h = 2
    /\ s.colors[0] = [r |-> 18, g |-> 86, b |-> 154]
    /\ s.colors[1] = [r |-> 171, g |-> 0, b |-> 255]

\* pixel i of row y of the surface as the host reads it: the four bytes of
\* the pixel word, most significant first
PixelWord(y, i) ==
    LET o == y * s.pitch + 4 * i
    IN  IF env.le
        THEN <<s.pixels[o + 4], s.pixels[o + 3], s.pixels[o + 2], s.pixels[o + 1]>>
        ELSE <<s.pixels[o + 1], s.pixels[o + 2], s.pixels[o + 3], s.pixels[o + 4]>>

\* C8: for a complete 32-bit image whose packed rows unpack to width red,
\* width green and width blue bytes, pixel i of every row holds red[i],
\* green[i] and blue[i] in the R, G and B positions of the host's pixel
\* word (0x00RRGGBB) and nothing else: no component lands on another
\* component or on a neighbouring pixel.
C8_PlanarScatter ==
    (pc = "returned" /\ Holds("rle32") /\ pict.full /\ env.tmpOk /\ s.ok) =>
        \A y \in 0..(s.h - 1), i \in 0..(s.w - 1) :
            LET u == LineUnits(pict.im.rows[y + 1], 1)
            IN  PixelWord(y, i) =
                    <<0, u[i + 1], u[s.w + i + 1], u[2 * s.w + i + 1]>>

\* two rows were scattered on a little-endian host; the second row is a
\* literal run of six different bytes
C8_Witness ==
    /\ pc = "returned" /\ Holds("rle32") /\ pict.full /\ env.tmpOk /\ env.le
    /\ s.ok /\ s.h = 2 /\ s.w = 2
    /\ pict.im.rows[2] = <<[rep |-> FALSE, n |-> 6, v |-> 161]>>
    /\ SubSeq(s.pixels, 9, 16) = <<165, 163, 161, 0, 166, 164, 162, 0>>

\* C9: a call that returns a surface for a complete resource has decoded
\* every scan line of it.
C9_NoPartialSuccess ==
    (pc = "returned" /\ pict.im.set /\ pict.full /\ s.ok) => obs.rows = s.h

\* C10: a complete image that declares a depth other than 8, 16 or 32 gets
\* no surface.
C10_UnsupportedDepthFails ==
    (img.set /\ pict.im.set /\ pict.full /\ img.pixel_size = pict.im.depth
       /\ img.pixel_size \notin {8, 16, 32}) => ~s.ok

\* the image case reached uncompress_picture with rowBytes >= 8 and a depth
\* other than 8 (0x009a: no colour table is read on the way)
PackedDeep ==
    img.set /\ op = 154 /\ s.ok /\ img.row_bytes >= 8 /\ img.pixel_size # 8

\* pack type pk at depth dp is not implemented: after defaulting it is not
\* 1, 3 or 4
Unimplemented(pk, dp) ==
    \/ pk \notin {0, 1, 3, 4}
    \/ pk = 0 /\ dp \notin {16, 32}

AfterImage ==
    op \in {152, 154} => (pc' = "returned" /\ UNCHANGED <<p, s, op, img, obs>>)

\* C12: once an image opcode has been processed the loop is over: the only
\* step left is the return, no further opcode is read, and the surface is
\* the one of the first image whatever follows its data (nothing, the end
\* of the picture, an unknown opcode, one more image).
C12_OneRaster ==
    /\ [](op \in {152, 154} => pc # "loop")
    /\ []((Holds("trail") /\ pc = "returned") =>
             s = [ok |-> TRUE, w |-> 1, h |-> 1, depth |-> 8, pitch |-> 4,
                  pixels |-> <<7, 0, 0, 0>>, ncolors |-> 256, colors |-> <<>>])
    /\ [][AfterImage]_vars

\* the call returned the first image of a resource that holds a second one
C12_Witness ==
    /\ Holds("trail") /\ pc = "returned" /\ s.ok /\ s.pixels = <<7, 0, 0, 0>>
    /\ Len(rsrc) > p + 1 + 2 /\ SubSeq(rsrc, p + 2, p + 3) = <<0, 152>>

---------------------------------------------------------------------------
(* Claims about two concurrent calls, checked under SpecPair *)

\* what a call gives its caller
Outcome(c) == [pc |-> c.pc, s |-> c.s]

\* the call of picture_to_surface on buf run alone, to its end
RECURSIVE Alone(_)
Alone(c) ==
    IF c.pc = "loop" THEN Alone(CallStep(c, 0, 0, DefaultEnv))
    ELSE IF c.pc = "done" THEN CallReturn(c)
    ELSE c

\* nothing more happens: the process has ended or both calls have returned
PairOver == ~Alive \/ \A k \in 1..2 : calls[k].pc = "returned"

---------------------------------------------------------------------------
(* More claims about unpack_bits, checked under SpecUnpack *)

\* C14: unpack_bits returns the start position plus the width of the
\* prefix (2 bytes if rowBytes > 250, otherwise 1) plus the count the prefix
\* declares, never a position beyond it.
C14_ReturnsDeclaredEnd ==
    upc = "ret" =>
        sp = (IF row_bytes > 250 THEN 2 ELSE 1) + Declared

---------------------------------------------------------------------------
(* More claims about picture_to_surface, checked under Spec *)

\* the big-endian word at offset i of the resource
Word(i) == rsrc[i + 1] * 256 + rsrc[i + 2]

\* the loop is about to read a long comment that lies inside the resource:
\* opcode, kind, size and size bytes of data
AtLongComment ==
    /\ pc = "loop" /\ p + 6 <= Len(rsrc)
    /\ Word(p) = 161
    /\ p + 6 + Word(p + 4) <= Len(rsrc)

\* C15 as stated: the next opcode is read at the offset after the opcode
\* plus 2 plus the declared length.
C15_LongCommentLength ==
    [][AtLongComment => p' = (p + 2) + 2 + Word(p + 4)]_vars

\* C15: a long comment moves the stream past the 2-byte comment kind, the
\* 2-byte size and exactly size bytes of data: the next opcode is read at
\* the offset after the opcode plus 4 plus the declared size.
C15_LongCommentKindLength ==
    [][AtLongComment => p' = (p + 2) + 4 + Word(p + 4)]_vars

\* a long comment of 3 data bytes was skipped; an opcode follows it
C15_Witness ==
    /\ op = 161 /\ p >= 19 /\ p + 2 <= Len(rsrc)
    /\ Word(p - 9) = 161 /\ Word(p - 5) = 3

\* the bytes an iteration reads at p before it skips anything: the opcode,
\* and the fields of a long comment (kind, size) or of a clip region (size)
FieldBytes ==
    IF Word(p) = 161 THEN 6 ELSE IF Word(p) = 1 THEN 4 ELSE 2

\* the loop is about to read an opcode whose fields lie inside the resource
AtOpcode ==
    /\ pc = "loop" /\ p + 2 <= Len(rsrc)
    /\ p + FieldBytes <= Len(rsrc)

\* C16: the stream only moves forward: every iteration leaves it behind
\* the bytes it has read, whatever the opcode and its fields are (also a
\* clip region of size 0 or 1), so no byte is read twice.
C16_CursorForward ==
    [][AtOpcode => (p' > p /\ p' >= p + FieldBytes)]_vars

\* a complete 0x0098 image of depth 8 and rowBytes < 8 was decoded
Loaded8 ==
    /\ pc = "returned" /\ Holds("plain8") /\ pict.im.opcode = 152 /\ pict.full
    /\ s.ok

\* colour table ct names palette index k
Named(ct, k) == \E n \in 1..Len(ct) : ct[n].i % 256 = k

\* the high bytes of the channels of table entry e
HighBytes(e) ==
    [r |-> (e.r - (e.r % 256)) \div 256, g |-> (e.g - (e.g % 256)) \div 256,
     b |-> (e.b - (e.b % 256)) \div 256]

C18_PaletteOnlyFor8 ==
    (img.set /\ op = 152 /\ s.ok /\ pict.im.set /\ pict.full
       /\ img.pixel_size = pict.im.depth) =>
        /\ img.pixel_size \in {16, 32} =>
              (s.ncolors = 0 /\ s.colors = <<>> /\ ~obs.nullpal /\ ~obs.wild)
        /\ img.pixel_size = 8 => s.ncolors = 256

\* a complete image of rowBytes < 8 went through uncompress_picture
Uncompressed ==
    /\ img.set /\ op \in {152, 154} /\ s.ok /\ pict.im.set /\ pict.full
    /\ ~obs.short /\ ~obs.nullpal
    /\ img.row_bytes < 8

\* C19: whenever rowBytes < 8 there is no unsupported-packing exit, the
\* first rowBytes * height bytes of the destination are the rowBytes *
\* height source bytes at the data offset, unchanged (no run-length
\* decoding, no byte swap, whatever the depth and the pack type are), and
\* every other destination byte is as it was (zero); when the copy fits
\* the pixel buffer the decode ends without an error.
C19_VerbatimCopy ==
    Uncompressed =>
        /\ pc # "exited"
        /\ ~obs.wild => pc \in {"done", "returned"}
        /\ \A k \in 1..Len(s.pixels) :
              s.pixels[k] = IF k <= img.row_bytes * img.height
                            THEN rsrc[p + k] ELSE 0

\* a little-endian host copied the two rows of a 16-bit image of pack type 1
\* (and a 32-bit image of pack type 5 exists as well)
C19_Witness ==
    /\ Uncompressed /\ pc = "returned" /\ env.le
    /\ img.pixel_size = 16 /\ img.pack_type = 1 /\ img.height = 2
    /\ s.pixels = <<17, 18, 19, 20, 0, 0, 0, 0>>

\* a complete 0x009a image of rowBytes >= 8 and a depth other than 8 went
\* through uncompress_picture, which stayed inside the resource and the
\* pixel buffer
PackedFull ==
    /\ PackedDeep /\ pict.im.set /\ pict.full /\ ~obs.short
    /\ ~obs.oob /\ ~obs.wild
    /\ pc \in {"done", "returned", "exited"}

\* what uncompress_picture gives for the image data when it is called with
\* pack type pk: the pixels, and whether the process exits
WithPackType(pk) ==
    uncompress_picture([b |-> rsrc, junk |-> 0], p, img.row_bytes,
                       Rep(Len(s.pixels), 0), s.pitch, img.pixel_size,
                       img.height, pk, env.tmpOk, env.le)

\* what the 16-bit run-length decoder gives for the image data
AsRle16 ==
    Apply(Rep(Len(s.pixels), 0),
          RleRows([b |-> rsrc, junk |-> 0], p, img.row_bytes, 2, s.pitch,
                  img.height, 0, env.le).ws)

\* what the 32-bit run-length decoder gives for the image data
AsRle32 ==
    Apply(Rep(Len(s.pixels), 0),
          uncompress_rle32([b |-> rsrc, junk |-> 0], p, img.row_bytes, s.pitch,
                           img.height, env.tmpOk, env.le).ws)

\* C20: for rowBytes >= 8, pack type 0 decodes to the same pixels and the
\* same outcome as pack type 3 at depth 16 and as pack type 4 at depth 32;
\* a pack type given as 3 or 4 is decoded as 16-bit chunks, resp. one
\* component at a time, whatever the depth is, and a pack type given as 1
\* is never an error.
C20_PackTypeDefault ==
    PackedFull =>
        /\ (img.pack_type = 0 /\ img.pixel_size = 16) =>
              (s.pixels = WithPackType(3).pixels /\ s.pixels = AsRle16
                 /\ pc # "exited")
        /\ (img.pack_type = 0 /\ img.pixel_size = 32) =>
              (s.pixels = WithPackType(4).pixels /\ s.pixels = AsRle32
                 /\ pc # "exited")
        /\ img.pack_type = 3 => (s.pixels = AsRle16 /\ pc # "exited")
        /\ img.pack_type = 4 => (s.pixels = AsRle32 /\ pc # "exited")
        /\ img.pack_type = 1 => pc # "exited"

\* a 16-bit image of pack type 0 was decoded as 16-bit chunks, on a
\* little-endian host
C20_Witness ==
    /\ PackedFull /\ pc = "returned" /\ env.le
    /\ img.pack_type = 0 /\ img.pixel_size = 16 /\ img.height = 1
    /\ pict.im.rows = <<<<[rep |-> FALSE, n |-> 2, v |-> 65280],
                          [rep |-> TRUE, n |-> 2, v |-> 255]>>>>
    /\ s.pixels = <<0, 255, 1, 0, 255, 0, 255, 0>>

---------------------------------------------------------------------------
(* Claims about the writes of uncompress_picture, checked under Spec *)

\* a complete image of depth 8, 16 or 32 went through uncompress_picture
\* with every read inside the resource and no write through a palette
\* pointer outside the palette
DecodedFull ==
    /\ img.set /\ op \in {152, 154} /\ s.ok /\ pict.im.set /\ pict.full
    /\ ~obs.short /\ ~obs.oob
    /\ img.pixel_size \in {8, 16, 32}
    /\ (op = 154 \/ img.pixel_size = 8)

\* C21: every write made while decoding lands inside the pixel buffer of
\* height x stride bytes, whatever rowBytes, width, height, depth, pack
\* type and packed data are: the verbatim copy, the in-place byte swap,
\* each unpacked run and each scattered band write only offsets in
\* [0, height * stride), and the temporary buffer of rowBytes bytes of the
\* 32-bit decoder is never written past its end.
C21_WritesInside ==
    DecodedFull => ~obs.wild

\* the image was decoded with every write inside the pixel buffer, and the
\* loop is over
Placed ==
    /\ DecodedFull /\ ~obs.wild /\ pc \in {"done", "returned"}
    /\ s.h = img.height

\* the bytes of source scan line y of an image that is not packed
SourceRow(y) ==
    SubSeq(rsrc, p + y * img.row_bytes + 1, p + (y + 1) * img.row_bytes)

\* source scan line y of an image of pack type 1, in host order
SwappedRow(y) ==
    byte_swap_memory(SourceRow(y), img.pixel_size \div 8,
                     img.row_bytes \div (img.pixel_size \div 8), env.le)

\* the units of packed scan line y (units of w bytes), as bytes in host
\* memory
UnitRow(y, w) ==
    [k \in 1..(w * Len(LineUnits(pict.im.rows[y + 1], w))) |->
        RowWrites(0, LineUnits(pict.im.rows[y + 1], w), w, env.le)[k][2]]

\* packed scan line y of a 32-bit image (n red, n green, n blue bytes) as
\* n pixels in host memory, the unused byte zero
BandRow(y, n) ==
    [k \in 1..(4 * n) |->
        LET c == IF env.le THEN 2 - ((k - 1) % 4) ELSE ((k - 1) % 4) - 1
        IN  IF c \in 0..2
            THEN LineUnits(pict.im.rows[y + 1], 1)[c * n + ((k - 1) \div 4) + 1]
            ELSE 0]

\* the surface holds the bytes of row from offset y * pitch on, as far as
\* they fit in one row of the surface
RowAt(y, row) ==
    \A k \in 1..Min(Len(row), s.pitch) : s.pixels[y * s.pitch + k] = row[k]

\* the decode paths
ByCopy == img.row_bytes < 8
ByPackType(pt) ==
    /\ img.row_bytes >= 8 /\ img.pixel_size # 8
    /\ DefaultPackType(img.pack_type, img.pixel_size) = pt
ByRle8 == img.row_bytes >= 8 /\ img.pixel_size = 8 /\ pict.im.rows # <<>>
ByRle16 == ByPackType(3) /\ img.pixel_size = 16 /\ pict.im.rows # <<>>
ByRle32 == ByPackType(4) /\ img.pixel_size = 32 /\ pict.im.rows # <<>> /\ env.tmpOk

CopyRowsAtStride ==
    (Placed /\ ByCopy) => \A y \in 0..(s.h - 1) : RowAt(y, SourceRow(y))

SwapRowsAtStride ==
    (Placed /\ ByPackType(1)) => \A y \in 0..(s.h - 1) : RowAt(y, SwappedRow(y))

RleRowsAtStride ==
    /\ (Placed /\ ByRle8) => \A y \in 0..(s.h - 1) : RowAt(y, UnitRow(y, 1))
    /\ (Placed /\ ByRle16) => \A y \in 0..(s.h - 1) : RowAt(y, UnitRow(y, 2))
    /\ (Placed /\ ByRle32) =>
          \A y \in 0..(s.h - 1) : RowAt(y, BandRow(y, img.row_bytes \div 4))

\* C22: on every decode path (verbatim copy, pack type 1 copy and swap,
\* 8-bit, 16-bit and 32-bit run-length), the data of source scan line y is
\* in the destination from offset y * stride on, for every y in
\* 0..height-1, also when the stride differs from rowBytes.
C22_RowsAtStride ==
    CopyRowsAtStride /\ SwapRowsAtStride /\ RleRowsAtStride

====
